---- MODULE Spec2Model ----
(***************************************************************************)
(* Model of the artifact indexing and retrieval pipeline:                  *)
(*   utils/preprocess_attachments.py  (preprocess_data_to_milvus)          *)
(*   tools/embeddings.py              (models, text2vector, image2vector)  *)
(*   tools/milvus_tools.py            (get_milvus_client, vector search)   *)
(*   utils/get_attachments_metadata.py (get_all_metadata)                  *)
(* The vector store (pymilvus) and the embedding models are environment:   *)
(* every call into them either succeeds or raises.                         *)
(***************************************************************************)
EXTENDS Integers, Sequences, FiniteSets, TLC

(* ------------------------------ bounds -------------------------------- *)
\* files of the longest source tree
MaxFiles == 137
\* a long source tree starts with up to MaxMixed arbitrary files, the rest
\* is one directory of files of one kind
MaxMixed == 1
\* files of a short source tree (re-run scenario)
MaxSmallFiles == 2
\* files of the source tree of a case that is queried
MaxQueryFiles == 1
\* ingestion runs of the re-run scenario
MaxRuns == 2
\* files of the source tree of a case whose records the gateway reads
MaxGatewayFiles == 1
\* files of a source tree of long text files
MaxSnippetFiles == 1
\* characters of a text file beyond the filler it starts with
MaxTail == 2
\* how far the arguments of is_icon lie from its thresholds
MaxDelta == 1
\* files of the source tree of a case whose records are ranked
MaxRankFiles == 3
\* threads that call get_milvus_client() at the same time
MaxThreads == 2
\* calls of image2vector on image files of the same pixels
MaxEmbedCalls == 2

(* ------------------------- program constants -------------------------- *)
BATCH_SIZE == 100

IMAGE_COLL == "case__attachments_image"
TEXT_COLL == "case__attachments_text"
Colls == {IMAGE_COLL, TEXT_COLL}

\* the two embedding spaces with the vector length of each: the configured
\* models either differ in length or coincide in it
DimPairs == {[text |-> 2, image |-> 3], [text |-> 3, image |-> 3]}

(* ----------------------------- source tree ---------------------------- *)
\* A text: the sequence of its characters. Filler(n) is a text of n
\* characters "x".
Filler(n) == [i \in 1..n |-> "x"]

\* text[:n]
Take(text, n) == SubSeq(text, 1, IF Len(text) < n THEN Len(text) ELSE n)

\* embeddings.py line 43: the characters of its input text2vector encodes
TextLimit == 500
\* preprocess_attachments.py line 89: the characters of a file kept as its
\* snippet
SnippetLimit == 500

\* the content of a file where nothing depends on it
DefaultText == <<"a">>

\* A file: its suffix, what reading/embedding it does, what the metadata
\* extractor does on it, and its content as read_text gives it.
\*   outcome "ok"         content loads and the encoder returns a vector
\*           "icon"       image that is_icon classifies as an icon
\*           "corrupt"    image that Image.open / the encoder fails on
\*           "unreadable" text file whose read_text raises
\*           "embedfail"  text file on which text2vector raises
\*           "skip"       not an image or text file
File(s, o, m) ==
    [suffix |-> s, outcome |-> o, meta |-> m, text |-> DefaultText]

\* a readable text file of content t
TextFile(t) == [File(".txt", "ok", "ok") EXCEPT !.text = t]

FileTypes ==
    { File(".jpg", "ok", "ok"), File(".jpg", "ok", "error"),
      File(".jpg", "icon", "ok"), File(".PNG", "corrupt", "ok"),
      File(".txt", "ok", "ok"), File(".txt", "ok", "error"),
      File(".md", "unreadable", "ok"), File(".txt", "embedfail", "ok"),
      File(".pdf", "skip", "ok"), File("", "skip", "ok") }

\* files of which a directory may hold many
BulkTypes == {File(".jpg", "ok", "ok"), File(".txt", "ok", "ok")}

\* the tails of length up to n over the characters "a" and "b"
RECURSIVE Tails(_)
Tails(n) ==
    IF n = 0 THEN {<<>>}
    ELSE LET shorter == Tails(n - 1)
         IN  shorter \cup {Append(t, c) : t \in shorter, c \in {"a", "b"}}

\* long text files: filler up to just below, at and just above the snippet
\* length, followed by a tail
LongTexts ==
    {Filler(n) \o t : n \in {SnippetLimit - 1, SnippetLimit},
                      t \in Tails(MaxTail)}

\* text files whose content holds the wildcard characters of a LIKE
\* pattern, and text files that differ in one character or in case
PatternTexts == {<<"a", "b", "c">>, <<"a", "_", "c">>, <<"A", "B", "C">>}

GatewayTypes == {TextFile(t) : t \in PatternTexts}

SnippetTypes == {TextFile(t) : t \in LongTexts}

RankTypes == {File(".jpg", "ok", "ok")}

\* The source trees of the scenarios. "long": the first MaxMixed files are
\* arbitrary, then comes one kind of file, up to MaxFiles files; "short":
\* up to MaxSmallFiles arbitrary files; "query": up to MaxQueryFiles
\* arbitrary files; "gateway": up to MaxGatewayFiles files of GatewayTypes;
\* "snippet": up to MaxSnippetFiles long text files; "rank": up to
\* MaxRankFiles image files. NextFiles is what may follow the
\* listed files fs.
NextFiles(fs, sc) ==
    IF sc = "short" THEN (IF Len(fs) < MaxSmallFiles THEN FileTypes ELSE {})
    ELSE IF sc = "gateway"
    THEN (IF Len(fs) < MaxGatewayFiles THEN GatewayTypes ELSE {})
    ELSE IF sc = "snippet"
    THEN (IF Len(fs) < MaxSnippetFiles THEN SnippetTypes ELSE {})
    ELSE IF sc = "rank"
    THEN (IF Len(fs) < MaxRankFiles THEN RankTypes ELSE {})
    ELSE IF sc = "query"
    THEN (IF Len(fs) < MaxQueryFiles THEN FileTypes ELSE {})
    ELSE IF Len(fs) >= MaxFiles THEN {}
    ELSE IF Len(fs) < MaxMixed THEN FileTypes
    ELSE IF Len(fs) = MaxMixed THEN BulkTypes
    ELSE {fs[Len(fs)]}

\* the lengths at which a long tree may end: within the mixed part, around
\* the batch size, and at MaxFiles
TreeEnds(fs, sc) ==
    \/ sc # "long"
    \/ Len(fs) <= MaxMixed
    \/ Len(fs) \in {BATCH_SIZE - 1, BATCH_SIZE, BATCH_SIZE + 1, MaxFiles}

\* str.lower() on the suffixes that occur
Lower(s) ==
    CASE s = ".PNG" -> ".png"
      [] s = ".JPG" -> ".jpg"
      [] s = ".TXT" -> ".txt"
      [] OTHER -> s

IsImageSuffix(s) == Lower(s) \in {".jpg", ".jpeg", ".png"}
\* (variant: every file that is no image is read as text)
IsTextSuffixElse(s) == ~IsImageSuffix(s)
\* line 87
IsTextSuffix(s) == Lower(s) \in {".txt", ".md"}

(* ------------------------------- images ------------------------------ *)
\* A decoded image: its size, the number of its distinct RGBA colours, and
\* whether converting it and counting its colours raises.
Image(w, h, colours, broken) ==
    [w |-> w, h |-> h, colours |-> colours, broken |-> broken]

\* a file_bytes argument: None or a number of bytes
NoHint == [given |-> FALSE, bytes |-> 0]
Hint(n) == [given |-> TRUE, bytes |-> n]

\* embeddings.py lines 52-54, 68 and 75
EDGE_MAX == 150
COLORS_MAX == 256
GetcolorsMax == 256 * 256
BytesMax == 10000

\* the numbers within MaxDelta of a threshold, and 1
Around(n) == {1} \cup {n + k : k \in (0 - MaxDelta)..MaxDelta}

\* the arguments of is_icon
Images ==
    {Image(w, h, c, b) : w \in Around(EDGE_MAX), h \in Around(EDGE_MAX),
                         c \in Around(COLORS_MAX) \cup Around(GetcolorsMax),
                         b \in BOOLEAN}
Hints == {NoHint} \cup {Hint(n) : n \in Around(BytesMax)}

\* the images and the sizes in bytes of the image files given to
\* image2vector one by one
EmbedImages ==
    {Image(32, 32, 16, FALSE), Image(EDGE_MAX, EDGE_MAX, COLORS_MAX, FALSE),
     Image(640, 480, 60000, FALSE), Image(32, 32, 16, TRUE)}
FileSizes == Around(BytesMax)

\* the size in bytes of a file of a source tree
FileBytes(file) == IF file.outcome = "icon" THEN BytesMax - 1 ELSE BytesMax + 1

\* Image.open(path).convert("RGB") on the image files of a source tree: a
\* small image of few colours for an "icon", a photograph otherwise
Decode(file) ==
    IF file.outcome = "icon" THEN Image(32, 32, 16, FALSE)
    ELSE Image(640, 480, 60000, FALSE)

(* ----------------------------- databases ----------------------------- *)
\* the database a client addresses that was made without a db_name, as
\* the client of the ingestion is (preprocess_attachments.py line 33)
DefaultDb == "default"

\* the values of milvus_db_name in the configuration
DbNames == {DefaultDb, "forensics"}

(* ------------------------------ threads ------------------------------- *)
Threads == 1..MaxThreads

\* the MilvusClient object that thread t constructs
ClientOf(t) ==
    IF t = 1 THEN "client" ELSE IF t = 2 THEN "client2" ELSE "client3"

(* ------------------------------ vectors ------------------------------- *)
\* A vector: the space it lies in, its length, and what the encoder was
\* given: <<p>> for the image at path p, the characters of a text or of
\* a query string.
Vec(sp, d, x) == [space |-> sp, dim |-> d, of |-> x]
None == Vec("none", 0, <<>>)

VARIABLES
    dims,            \* vector lengths of the configured models
    text_model,      \* embeddings.text_model: "none", "partial", "ready"
    image_model,     \* embeddings.image_model: "none", "ready"
    store,           \* the vector store: collection name -> collection
    files,           \* the regular files under DATA_ROOT, in walk order
    closed,          \* the listing of DATA_ROOT is complete
    logger,          \* the logger argument of the run: "none" or "given"
    run,             \* number of ingestion runs started
    pc,              \* position of the current or last run
    result,          \* "none", "running", "returned", "raised"
    raisedBy,        \* the call whose exception ended the run, "" if none
    existCheck,      \* what line 38 found: "both", "missing", "error"
    prevFailed,      \* some earlier run raised
    idx,             \* files processed by the loop of line 98 in this run
    img_batch,       \* line 53
    txt_batch,       \* line 54
    embedded,        \* paths given to an encoder in this run, in order
    log,             \* store calls of this run, in order
    errlog,          \* paths logged by logger.error in this run
    milvus_client_instance,  \* milvus_tools global: "none" or "client"
    lastSearch,      \* the last gateway call, if it was a vector search
    lastCall,        \* the last gateway call, if it was another call
    iconCall,        \* the call of is_icon with both arguments
    embedCalls,      \* calls of image2vector on files of the same pixels
    MILVUS_DB_NAME,  \* milvus_tools line 15: the configured database name
    tpc,             \* thread -> its position in get_milvus_client()
    tret,            \* thread -> what its call returned, "pending" before
    constructed,     \* the MilvusClient objects constructed so far
    checked          \* the clients whose list_collections() succeeded

ingestVars == <<dims, text_model, image_model, store, files, closed, logger,
                run, pc, result, raisedBy, existCheck, prevFailed, idx,
                img_batch, txt_batch, embedded, log, errlog>>

queryVars == <<milvus_client_instance, lastSearch, lastCall>>

iconVars == <<iconCall, embedCalls>>

configVars == <<MILVUS_DB_NAME>>

threadVars == <<tpc, tret, constructed, checked>>

vars == <<ingestVars, queryVars, iconVars, configVars, threadVars>>

NoColl == [exists |-> FALSE, dim |-> 0, metric |-> "", rows |-> <<>>]
EmptyImgBatch == [vector |-> <<>>, path |-> <<>>]
EmptyTxtBatch == [vector |-> <<>>, path |-> <<>>, content |-> <<>>]

\* one store call of a run
Call(op, c, n, ok) == [op |-> op, coll |-> c, n |-> n, ok |-> ok]

\* what a search call returned: a list of hits, a list of error records, or
\* nothing because it raised
Ret(kind, items) == [kind |-> kind, items |-> items]
ErrorRecord(text, code, message) ==
    [error |-> text, code |-> code, message |-> message]

\* an output_fields argument: None or a list
NoFields == [given |-> FALSE, list |-> <<>>]
Fields(l) == [given |-> TRUE, list |-> l]

\* a search call: the collection asked for, the query vector sent (None if
\* none was sent) with the limit and the output fields sent along, why it
\* failed ("none" if it did not) with the store's diagnostic code and
\* message if the store reported it, what it returned
SearchCall(c, qv, limit, fields, cause, code, message, ret) ==
    [coll |-> c, qvec |-> qv, limit |-> limit, output_fields |-> fields,
     cause |-> cause, code |-> code, message |-> message, ret |-> ret]
NoSearch ==
    SearchCall("", None, 0, NoFields, "none", "", "", Ret("none", <<>>))

\* one operation issued on the store client by a gateway function
StoreOp(op, c, limit, fields, filter) ==
    [op |-> op, coll |-> c, limit |-> limit, output_fields |-> fields,
     filter |-> filter]

\* a call of a gateway function other than the vector search: the function
\* and its argument (collection name or query string), what
\* get_milvus_client() did for it (attempted a connection, with what outcome, and the client it
\* returned), whether the call used the client although it was None, the
\* operations it issued on the client, and how it ended: kind is "ok",
\* "unavailable" (the store-unavailable result), "error" (another error
\* result) or "raised", with what was returned or raised
GatewayCall(fn, arg, attempted, connected, client, usedNone, ops, kind, value) ==
    [fn |-> fn, arg |-> arg, attempted |-> attempted, connected |-> connected,
     client |-> client, usedNone |-> usedNone, ops |-> ops, kind |-> kind,
     value |-> value]
NoCall == GatewayCall("", <<>>, FALSE, FALSE, "none", FALSE, <<>>, "none", <<>>)

\* a call of image2vector on a readable image file: the decoded image, the
\* size of the file, filter_icons, and whether the file was skipped as an
\* icon (None returned at line 87)
EmbedCall(img, size, filter_icons, skipped) ==
    [img |-> img, size |-> size, filter_icons |-> filter_icons,
     skipped |-> skipped]

\* a call of is_icon: its arguments and what it returned
IconCall(img, file_bytes, ret) ==
    [called |-> TRUE, img |-> img, file_bytes |-> file_bytes, ret |-> ret]
NoIconCall ==
    [called |-> FALSE, img |-> Image(1, 1, 1, FALSE), file_bytes |-> NoHint,
     ret |-> FALSE]

InitProcess ==
    /\ dims \in DimPairs
    /\ text_model = "none"
    /\ image_model = "none"
    /\ store = [c \in Colls |-> NoColl]
    /\ files = <<>>
    /\ closed = FALSE
    /\ logger = "given"
    /\ run = 0
    /\ pc = "start"
    /\ result = "none"
    /\ raisedBy = ""
    /\ existCheck = "missing"
    /\ prevFailed = FALSE
    /\ idx = 0
    /\ img_batch = EmptyImgBatch
    /\ txt_batch = EmptyTxtBatch
    /\ embedded = <<>>
    /\ log = <<>>
    /\ errlog = <<>>
    /\ milvus_client_instance = "none"
    /\ lastSearch = NoSearch
    /\ lastCall = NoCall
    /\ iconCall = NoIconCall
    /\ embedCalls = <<>>
    /\ tpc = [t \in Threads |-> "check"]
    /\ tret = [t \in Threads |-> "pending"]
    /\ constructed = {}
    /\ checked = {}

\* the configuration names the default database
Init == InitProcess /\ MILVUS_DB_NAME = DefaultDb

\* the configuration names any database
InitDatabases == InitProcess /\ MILVUS_DB_NAME \in DbNames

(* --------------------------- embeddings.py ---------------------------- *)
Max(a, b) == IF a > b THEN a ELSE b

\* img.convert("RGBA").getcolors(maxcolors=256*256): the number of distinct
\* colours, 0 standing for None (more than maxcolors colours)
getcolors(img) == IF img.colours > GetcolorsMax THEN 0 ELSE img.colours

\* (variant: an image whose longer edge is EDGE_MAX is too big already)
is_icon_edge_strict(img, file_bytes) ==
    IF Max(img.w, img.h) >= EDGE_MAX THEN FALSE
    ELSE IF img.broken THEN FALSE
    ELSE IF getcolors(img) = 0 \/ getcolors(img) > COLORS_MAX THEN FALSE
    ELSE IF file_bytes.given /\ file_bytes.bytes > BytesMax THEN FALSE
    ELSE TRUE

\* is_icon(img, file_bytes)
is_icon(img, file_bytes) ==
    IF Max(img.w, img.h) > EDGE_MAX THEN FALSE
    ELSE IF img.broken THEN FALSE
    ELSE IF getcolors(img) = 0 \/ getcolors(img) > COLORS_MAX THEN FALSE
    ELSE IF file_bytes.given /\ file_bytes.bytes > BytesMax THEN FALSE
    ELSE TRUE

\* (variant: the size of the file is passed to is_icon)
SkipsIconBySize(img, size, filter_icons) ==
    filter_icons /\ is_icon(img, Hint(size))

\* line 86: filter_icons and is_icon(img), for the image img decoded from a
\* file of size bytes
SkipsIcon(img, size, filter_icons) == filter_icons /\ is_icon(img, NoHint)

\* (variant: icons are embedded like any other image)
image2vector_unfiltered(p, file, filter_icons, d) ==
    IF file.outcome = "corrupt" THEN None
    ELSE Vec("image", d.image, <<p>>)

\* image2vector(path, filter_icons) with the image model loaded: everything
\* after get_image_model() runs inside try/except and yields None on failure
image2vector(p, file, filter_icons, d) ==
    IF file.outcome = "corrupt" THEN None
    ELSE IF SkipsIcon(Decode(file), FileBytes(file), filter_icons) THEN None
    ELSE Vec("image", d.image, <<p>>)

\* (variant: the encoder is given the whole text)
text2vector_whole(text, file, d) ==
    IF file.outcome = "embedfail"
    THEN [raised |-> TRUE, vec |-> None]
    ELSE [raised |-> FALSE, vec |-> Vec("text", d.text, text)]

\* text2vector(text) with the text model loaded: the encoder is given
\* text[:500]; nothing is caught here
text2vector(text, file, d) ==
    IF file.outcome = "embedfail"
    THEN [raised |-> TRUE, vec |-> None]
    ELSE [raised |-> FALSE, vec |-> Vec("text", d.text, Take(text, TextLimit))]

\* query2vector(query): the image model's text encoder
query2vector(query, d) == Vec("image", d.image, query)

(* --------------------- get_attachments_metadata.py -------------------- *)
\* get_all_metadata(path): every exception is caught inside and turned into
\* an "Error ..." string, which is what the caller receives
get_all_metadata(fs, p) ==
    IF fs[p].meta = "error" THEN "Error extracting metadata"
    ELSE "ExifTool Metadata"

(* ------------------------------ the store ----------------------------- *)
\* client.create_collection(name, dimension=dim, metric COSINE): an existing
\* collection is left as it is
StoreCreate(st, c, d) ==
    IF st[c].exists THEN st
    ELSE [st EXCEPT ![c] = [exists |-> TRUE, dim |-> d, metric |-> "COSINE",
                            rows |-> <<>>]]

\* the store accepts rows for an existing collection of their vector length
StoreAccepts(st, c, rows) ==
    /\ st[c].exists
    /\ \A k \in 1..Len(rows) : rows[k].vector.dim = st[c].dim

\* client.insert(name, rows): appends, no upsert
StoreInsert(st, c, rows) == [st EXCEPT ![c].rows = @ \o rows]

(* ---------------------- preprocess_attachments.py --------------------- *)
Min(a, b) == IF a < b THEN a ELSE b

\* (variant: the rows of the image batch are labelled as text)
ImgRowsTextModality(fs, ib) ==
    [k \in 1..Min(Len(ib.vector), Len(ib.path)) |->
        [vector |-> ib.vector[k], path |-> ib.path[k], modality |-> "text",
         content |-> <<>>, metadata |-> get_all_metadata(fs, ib.path[k])]]

\* rows built by flush_img: zip of the parallel arrays of the image batch
ImgRows(fs, ib) ==
    [k \in 1..Min(Len(ib.vector), Len(ib.path)) |->
        [vector |-> ib.vector[k], path |-> ib.path[k], modality |-> "image",
         content |-> <<>>, metadata |-> get_all_metadata(fs, ib.path[k])]]

\* rows built by flush_txt
TxtRows(fs, tb) ==
    [k \in 1..Min(Min(Len(tb.vector), Len(tb.path)), Len(tb.content)) |->
        [vector |-> tb.vector[k], path |-> tb.path[k], modality |-> "text",
         content |-> tb.content[k],
         metadata |-> get_all_metadata(fs, tb.path[k])]]

Flushed(st, b, lg, r) == [store |-> st, batch |-> b, log |-> lg, raised |-> r]

\* (variant: an exception of client.insert is caught and the run goes on)
flush_img_swallow(st, ib, lg, fs, ok) ==
    IF ib.vector = <<>> THEN Flushed(st, ib, lg, FALSE)
    ELSE LET rows == ImgRows(fs, ib)
             done == ok /\ StoreAccepts(st, IMAGE_COLL, rows)
         IN  IF done
             THEN Flushed(StoreInsert(st, IMAGE_COLL, rows), EmptyImgBatch,
                          Append(lg, Call("insert", IMAGE_COLL, Len(rows), TRUE)),
                          FALSE)
             ELSE Flushed(st, EmptyImgBatch,
                          Append(lg, Call("insert", IMAGE_COLL, Len(rows), FALSE)),
                          FALSE)

\* flush_img(): ok is whether client.insert returns
flush_img(st, ib, lg, fs, ok) ==
    IF ib.vector = <<>> THEN Flushed(st, ib, lg, FALSE)
    ELSE LET rows == ImgRows(fs, ib)
             done == ok /\ StoreAccepts(st, IMAGE_COLL, rows)
         IN  IF done
             THEN Flushed(StoreInsert(st, IMAGE_COLL, rows), EmptyImgBatch,
                          Append(lg, Call("insert", IMAGE_COLL, Len(rows), TRUE)),
                          FALSE)
             ELSE Flushed(st, ib,
                          Append(lg, Call("insert", IMAGE_COLL, Len(rows), FALSE)),
                          TRUE)

\* (variant: a batch below the batch size is never inserted)
flush_txt_full_only(st, tb, lg, fs, ok) ==
    IF Len(tb.vector) < BATCH_SIZE THEN Flushed(st, tb, lg, FALSE)
    ELSE LET rows == TxtRows(fs, tb)
             done == ok /\ StoreAccepts(st, TEXT_COLL, rows)
         IN  IF done
             THEN Flushed(StoreInsert(st, TEXT_COLL, rows), EmptyTxtBatch,
                          Append(lg, Call("insert", TEXT_COLL, Len(rows), TRUE)),
                          FALSE)
             ELSE Flushed(st, tb,
                          Append(lg, Call("insert", TEXT_COLL, Len(rows), FALSE)),
                          TRUE)

\* flush_txt()
flush_txt(st, tb, lg, fs, ok) ==
    IF tb.vector = <<>> THEN Flushed(st, tb, lg, FALSE)
    ELSE LET rows == TxtRows(fs, tb)
             done == ok /\ StoreAccepts(st, TEXT_COLL, rows)
         IN  IF done
             THEN Flushed(StoreInsert(st, TEXT_COLL, rows), EmptyTxtBatch,
                          Append(lg, Call("insert", TEXT_COLL, Len(rows), TRUE)),
                          FALSE)
             ELSE Flushed(st, tb,
                          Append(lg, Call("insert", TEXT_COLL, Len(rows), FALSE)),
                          TRUE)

Processed(ib, tb, failed, called) ==
    [img |-> ib, txt |-> tb, failed |-> failed, called |-> called]

\* (variant: the path is appended to the text batch before the encoder is
\* called)
process_file_path_first(p, file, ib, tb, d) ==
    IF IsImageSuffix(file.suffix)
    THEN LET vec == image2vector(p, file, TRUE, d)
         IN  IF vec # None
             THEN Processed([vector |-> Append(ib.vector, vec),
                             path |-> Append(ib.path, p)], tb, FALSE, TRUE)
             ELSE Processed(ib, tb, FALSE, TRUE)
    ELSE IF IsTextSuffix(file.suffix)
    THEN IF file.outcome = "unreadable"
         THEN Processed(ib, tb, TRUE, FALSE)
         ELSE LET snippet == Take(file.text, SnippetLimit)
                  r == text2vector(snippet, file, d)
              IN  IF r.raised
                  THEN Processed(ib, [tb EXCEPT !.path = Append(@, p)],
                                 TRUE, TRUE)
                  ELSE Processed(ib, [vector |-> Append(tb.vector, r.vec),
                                      path |-> Append(tb.path, p),
                                      content |-> Append(tb.content, snippet)],
                                 FALSE, TRUE)
    ELSE Processed(ib, tb, FALSE, FALSE)

\* process_file(p): failed is "an exception reached the except clause",
\* called is "an encoder was called"
process_file(p, file, ib, tb, d) ==
    IF IsImageSuffix(file.suffix)
    THEN LET vec == image2vector(p, file, TRUE, d)
         IN  IF vec # None
             THEN Processed([vector |-> Append(ib.vector, vec),
                             path |-> Append(ib.path, p)], tb, FALSE, TRUE)
             ELSE Processed(ib, tb, FALSE, TRUE)
    ELSE IF IsTextSuffix(file.suffix)
    THEN IF file.outcome = "unreadable"
         THEN Processed(ib, tb, TRUE, FALSE)
         ELSE LET snippet == Take(file.text, SnippetLimit)
                  r == text2vector(snippet, file, d)
              IN  IF r.raised
                  THEN Processed(ib, tb, TRUE, TRUE)
                  ELSE Processed(ib, [vector |-> Append(tb.vector, r.vec),
                                      path |-> Append(tb.path, p),
                                      content |-> Append(tb.content, snippet)],
                                 FALSE, TRUE)
    ELSE Processed(ib, tb, FALSE, FALSE)

\* (variant: one existing collection is enough to skip)
ShouldSkipEither(st) == st[IMAGE_COLL].exists \/ st[TEXT_COLL].exists

\* the existence check of line 38
ShouldSkip(st) == st[IMAGE_COLL].exists /\ st[TEXT_COLL].exists

\* what a store call can do: return (TRUE) or raise (FALSE); a call that is
\* not made has the one outcome TRUE
Returns(made) == IF made THEN BOOLEAN ELSE {TRUE}

\* (variant: the batch is flushed only once it exceeds the batch size)
BatchOverfull(b) == Len(b.vector) > BATCH_SIZE

\* the batch-size checks of lines 100 and 102
BatchFull(b) == Len(b.vector) >= BATCH_SIZE

\* (variant: the run does not look for existing collections)
StartRunUnchecked(again) ==
    /\ result # "running"
    /\ run = 0 \/ (again /\ run < MaxRuns)
    /\ \E lg \in {"none", "given"}, conn \in BOOLEAN :
        /\ logger' = lg
        /\ run' = run + 1
        /\ prevFailed' = (prevFailed \/ result = "raised")
        /\ idx' = 0
        /\ img_batch' = EmptyImgBatch
        /\ txt_batch' = EmptyTxtBatch
        /\ embedded' = <<>>
        /\ log' = <<>>
        /\ errlog' = <<>>
        /\ existCheck' = IF ~conn THEN "error" ELSE "missing"
        /\ pc' = IF ~conn THEN "start" ELSE "dims"
        /\ result' = IF ~conn THEN "raised" ELSE "running"
        /\ raisedBy' = IF ~conn THEN "connect" ELSE ""
    /\ UNCHANGED <<queryVars, iconVars, configVars, threadVars>>
    /\ UNCHANGED <<dims, text_model, image_model, store, files, closed>>

\* lines 31-40: connect, check both collections, skip if both exist
\* (again: re-runs are part of the scenario)
StartRun(again) ==
    /\ result # "running"
    /\ run = 0 \/ (again /\ run < MaxRuns)
    /\ \E lg \in {"none", "given"}, conn \in BOOLEAN :
        /\ logger' = lg
        /\ run' = run + 1
        /\ prevFailed' = (prevFailed \/ result = "raised")
        /\ idx' = 0
        /\ img_batch' = EmptyImgBatch
        /\ txt_batch' = EmptyTxtBatch
        /\ embedded' = <<>>
        /\ log' = <<>>
        /\ errlog' = <<>>
        /\ existCheck' = IF ~conn THEN "error"
                         ELSE IF ShouldSkip(store) THEN "both" ELSE "missing"
        /\ pc' = IF ~conn THEN "start"
                 ELSE IF ShouldSkip(store) THEN "skip" ELSE "dims"
        /\ result' = IF ~conn THEN "raised"
                     ELSE IF ShouldSkip(store)
                          THEN (IF lg = "none" THEN "raised" ELSE "returned")
                          ELSE "running"
        \* line 39 calls logger.info on the logger as given
        /\ raisedBy' = IF ~conn THEN "connect"
                       ELSE IF ShouldSkip(store) /\ lg = "none" THEN "logger"
                       ELSE ""
    /\ UNCHANGED <<queryVars, iconVars, configVars, threadVars>>
    /\ UNCHANGED <<dims, text_model, image_model, store, files, closed>>

\* get_text_model(): load is "ok", fails in the constructor ("ctor") or
\* fails in .to(device) after the global was assigned ("to")
TextModelAfter(tm, load) ==
    IF tm # "none" THEN tm
    ELSE IF load = "ok" THEN "ready"
    ELSE IF load = "to" THEN "partial"
    ELSE "none"

TextModelRaises(tm, load) == tm = "none" /\ load # "ok"

\* get_image_model(): image_model is assigned last, by the one statement
\* that can leave it loaded
ImageModelAfter(im, load) == IF im = "none" /\ load THEN "ready" ELSE im

ImageModelRaises(im, load) == im = "none" /\ ~load

\* line 43: get_embedding_dimensions()
GetDims ==
    /\ result = "running" /\ pc = "dims"
    /\ \E tl \in {"ok", "ctor", "to"}, il \in BOOLEAN :
        LET traise == TextModelRaises(text_model, tl)
            iraise == ~traise /\ ImageModelRaises(image_model, il)
        IN  /\ text_model' = TextModelAfter(text_model, tl)
            /\ image_model' = IF traise THEN image_model
                              ELSE ImageModelAfter(image_model, il)
            /\ result' = IF traise \/ iraise THEN "raised" ELSE "running"
            /\ raisedBy' = IF traise \/ iraise THEN "model" ELSE ""
            /\ pc' = IF traise \/ iraise THEN "dims" ELSE "create_img"
    /\ UNCHANGED <<queryVars, iconVars, configVars, threadVars>>
    /\ UNCHANGED <<dims, store, files, closed, logger, run, existCheck,
                   prevFailed, idx, img_batch, txt_batch, embedded, log,
                   errlog>>

\* (variant: both collections are created in the first step)
CreateImageAndText ==
    /\ result = "running" /\ pc = "create_img"
    /\ \E ok \in BOOLEAN :
        /\ log' = Append(log, Call("create", IMAGE_COLL, 0, ok))
        /\ store' = IF ok
                    THEN StoreCreate(StoreCreate(store, IMAGE_COLL, dims.image),
                                     TEXT_COLL, dims.text)
                    ELSE store
        /\ result' = IF ok THEN "running" ELSE "raised"
        /\ raisedBy' = IF ok THEN "" ELSE "create"
        /\ pc' = IF ok THEN "create_txt" ELSE "create_img"
    /\ UNCHANGED <<queryVars, iconVars, configVars, threadVars>>
    /\ UNCHANGED <<dims, text_model, image_model, files, closed, logger, run,
                   existCheck, prevFailed, idx, img_batch, txt_batch,
                   embedded, errlog>>

\* line 46: create_collection(client, IMAGE_COLL, DIM_IMAGE, logger)
CreateImage ==
    /\ result = "running" /\ pc = "create_img"
    /\ \E ok \in BOOLEAN :
        /\ log' = Append(log, Call("create", IMAGE_COLL, 0, ok))
        /\ store' = IF ok THEN StoreCreate(store, IMAGE_COLL, dims.image)
                    ELSE store
        /\ result' = IF ok THEN "running" ELSE "raised"
        /\ raisedBy' = IF ok THEN "" ELSE "create"
        /\ pc' = IF ok THEN "create_txt" ELSE "create_img"
    /\ UNCHANGED <<queryVars, iconVars, configVars, threadVars>>
    /\ UNCHANGED <<dims, text_model, image_model, files, closed, logger, run,
                   existCheck, prevFailed, idx, img_batch, txt_batch,
                   embedded, errlog>>

\* (variant: both collections are created with the image dimension)
CreateTextImageDim ==
    /\ result = "running" /\ pc = "create_txt"
    /\ \E ok \in BOOLEAN :
        /\ log' = Append(log, Call("create", TEXT_COLL, 0, ok))
        /\ store' = IF ok THEN StoreCreate(store, TEXT_COLL, dims.image)
                    ELSE store
        /\ result' = IF ok THEN "running" ELSE "raised"
        /\ raisedBy' = IF ok THEN "" ELSE "create"
        /\ pc' = IF ok THEN "walk" ELSE "create_txt"
    /\ UNCHANGED <<queryVars, iconVars, configVars, threadVars>>
    /\ UNCHANGED <<dims, text_model, image_model, files, closed, logger, run,
                   existCheck, prevFailed, idx, img_batch, txt_batch,
                   embedded, errlog>>

\* line 47: create_collection(client, TEXT_COLL, DIM_TEXT, logger)
CreateText ==
    /\ result = "running" /\ pc = "create_txt"
    /\ \E ok \in BOOLEAN :
        /\ log' = Append(log, Call("create", TEXT_COLL, 0, ok))
        /\ store' = IF ok THEN StoreCreate(store, TEXT_COLL, dims.text)
                    ELSE store
        /\ result' = IF ok THEN "running" ELSE "raised"
        /\ raisedBy' = IF ok THEN "" ELSE "create"
        /\ pc' = IF ok THEN "walk" ELSE "create_txt"
    /\ UNCHANGED <<queryVars, iconVars, configVars, threadVars>>
    /\ UNCHANGED <<dims, text_model, image_model, files, closed, logger, run,
                   existCheck, prevFailed, idx, img_batch, txt_batch,
                   embedded, errlog>>

\* the files the loop can see next: the next listed one, or a further file
\* of a listing that is not complete yet
Upcoming(sc) ==
    IF idx < Len(files) THEN {files[idx + 1]}
    ELSE IF closed THEN {}
    ELSE NextFiles(files, sc)

\* lines 98-103: one iteration of the loop, process_file and both batch
\* size checks with the flushes they trigger
WalkFile(sc) ==
    /\ result = "running" /\ pc = "walk"
    /\ \E file \in Upcoming(sc) :
        LET p  == idx + 1
            fs == IF idx < Len(files) THEN files ELSE Append(files, file)
            r  == process_file(p, file, img_batch, txt_batch, dims)
            \* logger.error on a missing logger raises out of the handler
            lograise == r.failed /\ logger = "none"
        IN  \E okI \in Returns(~lograise /\ BatchFull(r.img)),
               okT \in Returns(~lograise /\ BatchFull(r.txt)) :
            LET f1 == IF BatchFull(r.img)
                      THEN flush_img(store, r.img, log, fs, okI)
                      ELSE Flushed(store, r.img, log, FALSE)
                f2 == IF ~f1.raised /\ BatchFull(r.txt)
                      THEN flush_txt(f1.store, r.txt, f1.log, fs, okT)
                      ELSE Flushed(f1.store, r.txt, f1.log, FALSE)
            IN  /\ files' = fs
                /\ idx' = p
                /\ embedded' = IF r.called THEN Append(embedded, p)
                               ELSE embedded
                /\ errlog' = IF r.failed /\ ~lograise THEN Append(errlog, p)
                             ELSE errlog
                /\ img_batch' = IF lograise THEN img_batch ELSE f1.batch
                /\ txt_batch' = IF lograise THEN txt_batch ELSE f2.batch
                /\ store' = IF lograise THEN store ELSE f2.store
                /\ log' = IF lograise THEN log ELSE f2.log
                /\ result' = IF lograise \/ f1.raised \/ f2.raised
                             THEN "raised" ELSE "running"
                /\ raisedBy' = IF lograise THEN "logger"
                               ELSE IF f1.raised \/ f2.raised THEN "insert"
                               ELSE ""
    /\ UNCHANGED <<queryVars, iconVars, configVars, threadVars>>
    /\ UNCHANGED <<dims, text_model, image_model, closed, logger, run, pc,
                   existCheck, prevFailed>>

\* the loop of line 98 is exhausted
EndWalk(sc) ==
    /\ result = "running" /\ pc = "walk"
    /\ idx = Len(files)
    /\ closed \/ TreeEnds(files, sc)
    /\ closed' = TRUE
    /\ pc' = "drain_img"
    /\ UNCHANGED <<queryVars, iconVars, configVars, threadVars>>
    /\ UNCHANGED <<dims, text_model, image_model, store, files, logger, run,
                   result, raisedBy, existCheck, prevFailed, idx, img_batch, txt_batch,
                   embedded, log, errlog>>

\* line 105: flush_img() at the end of the walk
DrainImg ==
    /\ result = "running" /\ pc = "drain_img"
    /\ \E ok \in Returns(img_batch.vector # <<>>) :
        LET f == flush_img(store, img_batch, log, files, ok)
        IN  /\ store' = f.store
            /\ img_batch' = f.batch
            /\ log' = f.log
            /\ result' = IF f.raised THEN "raised" ELSE "running"
            /\ raisedBy' = IF f.raised THEN "insert" ELSE ""
            /\ pc' = IF f.raised THEN "drain_img" ELSE "drain_txt"
    /\ UNCHANGED <<queryVars, iconVars, configVars, threadVars>>
    /\ UNCHANGED <<dims, text_model, image_model, files, closed, logger, run,
                   existCheck, prevFailed, idx, txt_batch, embedded, errlog>>

\* line 106: flush_txt() at the end of the walk
DrainTxt ==
    /\ result = "running" /\ pc = "drain_txt"
    /\ \E ok \in Returns(txt_batch.vector # <<>>) :
        LET f == flush_txt(store, txt_batch, log, files, ok)
        IN  /\ store' = f.store
            /\ txt_batch' = f.batch
            /\ log' = f.log
            /\ result' = IF f.raised THEN "raised" ELSE "running"
            /\ raisedBy' = IF f.raised THEN "insert" ELSE ""
            /\ pc' = IF f.raised THEN "drain_txt" ELSE "commit"
    /\ UNCHANGED <<queryVars, iconVars, configVars, threadVars>>
    /\ UNCHANGED <<dims, text_model, image_model, files, closed, logger, run,
                   existCheck, prevFailed, idx, img_batch, embedded, errlog>>

\* lines 108-109: client.flush of both collections
Commit ==
    /\ result = "running" /\ pc = "commit"
    /\ \E okI \in BOOLEAN, okT \in BOOLEAN :
        /\ okI \/ okT
        /\ log' = IF okI
                  THEN log \o <<Call("flush", IMAGE_COLL, 0, TRUE),
                                Call("flush", TEXT_COLL, 0, okT)>>
                  ELSE Append(log, Call("flush", IMAGE_COLL, 0, FALSE))
        /\ result' = IF okI /\ okT THEN "running" ELSE "raised"
        /\ raisedBy' = IF okI /\ okT THEN "" ELSE "flush"
        /\ pc' = IF okI /\ okT THEN "report" ELSE "commit"
    /\ UNCHANGED <<queryVars, iconVars, configVars, threadVars>>
    /\ UNCHANGED <<dims, text_model, image_model, store, files, closed,
                   logger, run, existCheck, prevFailed, idx, img_batch,
                   txt_batch, embedded, errlog>>

\* (variant: the row counts are read without waiting for the store flush)
ReportUnflushed ==
    /\ result = "running" /\ pc \in {"commit", "report"}
    /\ \E ok \in BOOLEAN :
        /\ log' = Append(log, Call("stats", IMAGE_COLL, 0, ok))
        /\ result' = IF ok /\ logger = "given" THEN "returned" ELSE "raised"
        /\ raisedBy' = IF ~ok THEN "stats"
                       ELSE IF logger = "none" THEN "logger" ELSE ""
        /\ pc' = IF ok /\ logger = "given" THEN "done" ELSE "report"
    /\ UNCHANGED <<queryVars, iconVars, configVars, threadVars>>
    /\ UNCHANGED <<dims, text_model, image_model, store, files, closed,
                   logger, run, existCheck, prevFailed, idx, img_batch,
                   txt_batch, embedded, errlog>>

\* lines 111-113: read both row counts and log them
Report ==
    /\ result = "running" /\ pc = "report"
    /\ \E ok \in BOOLEAN :
        /\ log' = Append(log, Call("stats", IMAGE_COLL, 0, ok))
        /\ result' = IF ok /\ logger = "given" THEN "returned" ELSE "raised"
        \* line 113 calls logger.info on the logger as given
        /\ raisedBy' = IF ~ok THEN "stats"
                       ELSE IF logger = "none" THEN "logger" ELSE ""
        /\ pc' = IF ok /\ logger = "given" THEN "done" ELSE "report"
    /\ UNCHANGED <<queryVars, iconVars, configVars, threadVars>>
    /\ UNCHANGED <<dims, text_model, image_model, store, files, closed,
                   logger, run, existCheck, prevFailed, idx, img_batch,
                   txt_batch, embedded, errlog>>

(* ---------------------------- milvus_tools.py ------------------------- *)
\* preprocess_attachments.py line 33 and milvus_tools.py lines 27-31: the
\* database of the ingestion client and the database of the gateway client
IngestDatabase == DefaultDb
GatewayDatabase(db_name) == db_name

\* the collections the gateway client sees, st being the collections of
\* the database the ingestion writes to: no other database is written to
GatewayStore(st, db_name) ==
    IF GatewayDatabase(db_name) = IngestDatabase THEN st
    ELSE [c \in Colls |-> NoColl]

\* the collections a caller may name: the two of the case and a name that
\* is no collection of the store
QueryColls == Colls \cup {"case__unknown"}

\* line 73: the default of limit
DefaultLimit == 5
Limits == {1, 2, DefaultLimit}

\* (variant: a client is constructed by every call)
ConnectingAlways(inst) == TRUE

\* line 24: get_milvus_client() constructs a client only while none is
\* memoized
Connecting(inst) == inst = "none"

\* get_milvus_client(): connect is whether the constructor and the
\* list_collections() probe both return
get_milvus_client(inst, connect) ==
    IF ~Connecting(inst) THEN inst
    ELSE IF connect THEN "client"
    ELSE "none"

\* the query strings of the callers: one where nothing depends on the
\* query, and all of them
DefaultQuery == <<"c">>
Queries == {<<"c">>, <<"d">>, <<"e">>}

\* (variant: the encoder is chosen by vector length, so that the text model
\* serves when both spaces have the same length)
EncodeQueryByLength(query, c, d) ==
    IF d.text = d.image THEN Vec("text", d.text, query)
    ELSE query2vector(query, d)

\* line 98: the encoder that turns the query text into the query vector
EncodeQuery(query, c, d) == query2vector(query, d)

\* the store's answer to client.search: an exception or a list of hit lists.
\* fault is what the connection does: "none", "milvus" (the store reports an
\* error) or "other" (any other exception)
StoreAnswer(exc, code, message, results) ==
    [exc |-> exc, code |-> code, message |-> message, results |-> results]

\* The cosine similarity, in tenths, of a query vector and a stored vector.
\* The image model puts each image somewhere else relative to each query:
\* the image at path p has the p-th similarity of the query's list, and
\* vectors of different spaces are unrelated.
Cosine(qv, v) ==
    IF qv.space # "image" \/ v.space # "image" THEN 0
    ELSE LET list == IF qv.of = <<"c">> THEN <<9, 5, 1, 3>>
                     ELSE IF qv.of = <<"d">> THEN <<1, 9, 5, 7>>
                     ELSE <<5, 1, 9, 3>>
         IN  list[((v.of[1] - 1) % 4) + 1]

\* the position of a row of highest similarity to qv, the first of them
Best(rows, qv) ==
    CHOOSE k \in 1..Len(rows) :
        /\ \A j \in 1..Len(rows) :
               Cosine(qv, rows[j].vector) <= Cosine(qv, rows[k].vector)
        /\ \A j \in 1..(k - 1) :
               Cosine(qv, rows[j].vector) < Cosine(qv, rows[k].vector)

\* the limit rows nearest to qv by cosine similarity, nearest first
RECURSIVE TopK(_, _, _)
TopK(rows, qv, limit) ==
    IF limit = 0 \/ rows = <<>> THEN <<>>
    ELSE LET k == Best(rows, qv)
         IN  <<rows[k]>> \o TopK(SubSeq(rows, 1, k - 1)
                                     \o SubSeq(rows, k + 1, Len(rows)),
                                 qv, limit - 1)

\* client.search(collection_name, data=[qv], limit=limit, ...): one hit list
\* for the one query vector
StoreSearch(st, c, qv, limit, fault) ==
    IF fault = "other" THEN StoreAnswer("Exception", "", "", <<>>)
    ELSE IF fault = "milvus"
    THEN StoreAnswer("MilvusException", "2", "service unavailable", <<>>)
    ELSE IF c \notin DOMAIN st \/ ~st[c].exists
    THEN StoreAnswer("MilvusException", "100", "collection not found", <<>>)
    ELSE IF qv.dim # st[c].dim
    THEN StoreAnswer("MilvusException", "65535", "vector dimension mismatch",
                     <<>>)
    ELSE StoreAnswer("none", "", "", <<TopK(st[c].rows, qv, limit)>>)

\* lines 100-101: the handler around query2vector
OnEncodeException ==
    Ret("error", <<ErrorRecord("Failed to convert query to vector", "", "")>>)

\* (variant: only the store's own exception type is caught)
OnStoreAnswerMilvusOnly(a) ==
    IF a.exc = "MilvusException"
    THEN Ret("error", <<ErrorRecord("Milvus vector search failed",
                                    a.code, a.message)>>)
    ELSE IF a.exc = "Exception" THEN Ret("raised", <<>>)
    ELSE IF a.results # <<>> THEN Ret("hits", a.results[1])
    ELSE Ret("hits", <<>>)

\* lines 118-123: results[0] if results else [], and the two handlers
OnStoreAnswer(a) ==
    IF a.exc = "MilvusException"
    THEN Ret("error", <<ErrorRecord("Milvus vector search failed",
                                    a.code, a.message)>>)
    ELSE IF a.exc = "Exception"
    THEN Ret("error", <<ErrorRecord(
             "Milvus vector search failed with an unexpected error", "", "")>>)
    ELSE IF a.results # <<>> THEN Ret("hits", a.results[1])
    ELSE Ret("hits", <<>>)

\* what the connection does during a store operation: "none", "milvus"
\* (the store reports an error) or "other" (any other exception)
Faults == {"none", "milvus", "other"}

\* line 91: the default of output_fields in the vector search
DefaultFields == <<"path", "modality", "metadata">>

\* the output_fields arguments a caller passes
FieldArgs == {NoFields, Fields(<<"path", "content">>)}

\* lines 90-91: the output fields the vector search asks the store for
SearchOutputFields(arg) == IF ~arg.given THEN Fields(DefaultFields) ELSE arg

UnavailableText == "Error: Milvus client not available or connection failed."

\* (variant: the store is always asked for the default number of hits)
milvus_text_image_search_default_limit(cl, q, c, limit, arg, im, ld, f, st, d) ==
    IF cl = "none"
    THEN SearchCall(c, None, 0, NoFields, "no_client", "", "",
             Ret("error", <<ErrorRecord(
                 "Milvus client not available or connection failed.",
                 "", "")>>))
    ELSE IF ImageModelRaises(im, ld)
    THEN SearchCall(c, None, 0, NoFields, "encode", "", "",
                    OnEncodeException)
    ELSE LET qv == EncodeQuery(q, c, d)
             a  == StoreSearch(st, c, qv, DefaultLimit, f)
         IN  SearchCall(c, qv, limit, SearchOutputFields(arg), a.exc, a.code,
                        a.message, OnStoreAnswer(a))

\* milvus_text_image_search(query_text, collection_name, limit=...,
\* output_fields=...) with the client cl that get_milvus_client()
\* returned, the query text q, whether the image model loads (ld) and what
\* the connection does during the search (f)
milvus_text_image_search(cl, q, c, limit, arg, im, ld, f, st, d) ==
    IF cl = "none"
    THEN SearchCall(c, None, 0, NoFields, "no_client", "", "",
             Ret("error", <<ErrorRecord(
                 "Milvus client not available or connection failed.",
                 "", "")>>))
    ELSE IF ImageModelRaises(im, ld)
    THEN SearchCall(c, None, 0, NoFields, "encode", "", "",
                    OnEncodeException)
    ELSE LET qv == EncodeQuery(q, c, d)
             a  == StoreSearch(st, c, qv, limit, f)
         IN  SearchCall(c, qv, limit, SearchOutputFields(arg), a.exc, a.code,
                        a.message, OnStoreAnswer(a))

\* one call of the search tool between ingestion runs, by a caller whose
\* query strings are queries, whose limit arguments are limits and whose
\* output_fields arguments are args
Search(queries, limits, args) ==
    /\ result # "running"
    /\ \E query \in queries, c \in QueryColls, limit \in limits,
          arg \in args,
          connect \in Returns(milvus_client_instance = "none"),
          load \in Returns(image_model = "none"),
          fault \in Faults :
        LET client == get_milvus_client(milvus_client_instance, connect)
            call == milvus_text_image_search(
                        client, query, c, limit, arg, image_model, load,
                        fault, GatewayStore(store, MILVUS_DB_NAME), dims)
        IN  \* the store can only fail a call that reaches it
            /\ call.qvec = None => fault = "none"
            /\ milvus_client_instance' = client
            /\ image_model' = IF client = "none" THEN image_model
                              ELSE ImageModelAfter(image_model, load)
            /\ lastSearch' = call
    /\ lastCall' = NoCall
    /\ UNCHANGED <<iconVars, configVars, threadVars>>
    /\ UNCHANGED <<dims, text_model, store, files, closed, logger, run, pc,
                   result, raisedBy, existCheck, prevFailed, idx, img_batch, txt_batch,
                   embedded, log, errlog>>

\* milvus_list_collections(): the collections of the database, each with
\* its description; an exception of describe_collection is reported inline
milvus_list_collections(client, st, attempted, connected, fault) ==
    LET names == IF st[IMAGE_COLL].exists THEN <<IMAGE_COLL>> ELSE <<>>
        names2 == IF st[TEXT_COLL].exists THEN Append(names, TEXT_COLL)
                  ELSE names
        describes == [k \in 1..Len(names2) |->
                         StoreOp("describe_collection", names2[k], 0,
                                 NoFields, "")]
        listOp == StoreOp("list_collections", "", 0, NoFields, "")
    IN  IF client = "none"
        THEN GatewayCall("milvus_list_collections", <<>>, attempted, connected,
                         client, FALSE, <<>>, "unavailable",
                         <<UnavailableText>>)
        ELSE IF fault = "list"
        THEN GatewayCall("milvus_list_collections", <<>>, attempted, connected,
                         client, FALSE, <<listOp>>, "error",
                         <<"Error listing Milvus collections">>)
        ELSE GatewayCall("milvus_list_collections", <<>>, attempted, connected,
                         client, FALSE, <<listOp>> \o describes, "ok",
                         IF fault = "describe"
                         THEN [k \in 1..Len(names2) |->
                                  "Error retrieving details"]
                         ELSE names2)

\* get_collection_info(collection_name): the client is used as returned by
\* get_milvus_client(), every exception is raised again as a ValueError
get_collection_info(client, c, st, attempted, connected) ==
    IF client = "none"
    THEN \* None.describe_collection: AttributeError inside the try
         GatewayCall("get_collection_info", <<c>>, attempted, connected,
                     client,
                     TRUE, <<>>, "raised",
                     <<"ValueError", "Failed to get collection info",
                       "'NoneType' object has no attribute 'describe_collection'">>)
    ELSE IF c \notin DOMAIN st \/ ~st[c].exists
    THEN GatewayCall("get_collection_info", <<c>>, attempted, connected,
                     client,
                     FALSE,
                     <<StoreOp("describe_collection", c, 0, NoFields, "")>>,
                     "raised",
                     <<"ValueError", "Failed to get collection info",
                       "collection not found">>)
    ELSE GatewayCall("get_collection_info", <<c>>, attempted, connected,
                     client,
                     FALSE,
                     <<StoreOp("describe_collection", c, 0, NoFields, "")>>,
                     "ok", <<c>>)

\* the query strings of the callers of the text search
PatternQueries ==
    {<<"b">>, <<"a", "_", "c">>, <<"a", "%", "c">>, <<"'">>}

\* line 149: the filter expression, <field> like '%<query_text>%'; literal
\* is the string literal as it is written into the expression, quotes
\* included
FilterExpr(field, query_text) ==
    [field |-> field,
     literal |-> <<"'", "%">> \o query_text \o <<"%", "'">>]

\* the store reads the literal up to its closing quote: a literal with a
\* quote inside does not parse
Parses(literal) ==
    \A i \in 2..(Len(literal) - 1) : literal[i] # "'"
Pattern(literal) == SubSeq(literal, 2, Len(literal) - 1)

\* the store's LIKE: % stands for any characters, _ for any one character,
\* every other character for itself, case-sensitively
RECURSIVE LikeMatch(_, _)
LikeMatch(pat, text) ==
    IF pat = <<>> THEN text = <<>>
    ELSE IF Head(pat) = "%"
    THEN \/ LikeMatch(Tail(pat), text)
         \/ text # <<>> /\ LikeMatch(pat, Tail(text))
    ELSE IF text = <<>> THEN FALSE
    ELSE IF Head(pat) = "_" THEN LikeMatch(Tail(pat), Tail(text))
    ELSE Head(pat) = Head(text) /\ LikeMatch(Tail(pat), Tail(text))

\* client.query(collection_name, filter=..., limit=...): the first limit
\* rows that satisfy the filter
StoreQuery(st, c, filter, limit, fault) ==
    IF fault = "other" THEN StoreAnswer("Exception", "", "", <<>>)
    ELSE IF fault = "milvus"
    THEN StoreAnswer("MilvusException", "2", "service unavailable", <<>>)
    ELSE IF c \notin DOMAIN st \/ ~st[c].exists
    THEN StoreAnswer("MilvusException", "100", "collection not found", <<>>)
    ELSE IF ~Parses(filter.literal)
    THEN StoreAnswer("MilvusException", "1100", "failed to create query plan",
                     <<>>)
    ELSE LET Sat(r) == LikeMatch(Pattern(filter.literal), r[filter.field])
             sat == SelectSeq(st[c].rows, Sat)
         IN  StoreAnswer("none", "", "", Take(sat, limit))

\* milvus_text_search(collection_name, query_text, limit=..., output_fields
\* =...) on the default text field
milvus_text_search(client, c, query_text, limit, arg, st, attempted, connected, fault) ==
    LET filter_expr == FilterExpr("content", query_text)
        a == StoreQuery(st, c, filter_expr, limit, fault)
        op == StoreOp("query", c, limit, arg, filter_expr)
    IN  IF client = "none"
        THEN GatewayCall("milvus_text_search", query_text, attempted,
                         connected, client, FALSE, <<>>, "unavailable",
                         <<UnavailableText>>)
        ELSE IF a.exc # "none"
        THEN GatewayCall("milvus_text_search", query_text, attempted,
                         connected, client, FALSE, <<op>>, "error",
                         <<"Error: Text search failed">>)
        ELSE GatewayCall("milvus_text_search", query_text, attempted,
                         connected, client, FALSE, <<op>>, "ok", a.results)

\* one call of milvus_text_search
TextSearch ==
    /\ result # "running"
    /\ \E c \in QueryColls, query_text \in PatternQueries,
          limit \in {1, DefaultLimit}, arg \in FieldArgs,
          connect \in Returns(milvus_client_instance = "none"),
          fault \in {"none", "other"} :
        LET client == get_milvus_client(milvus_client_instance, connect)
        IN  \* the store can only fail a call that reaches it
            /\ client = "none" => fault = "none"
            /\ milvus_client_instance' = client
            /\ lastCall' = milvus_text_search(
                               client, c, query_text, limit, arg,
                               GatewayStore(store, MILVUS_DB_NAME),
                               Connecting(milvus_client_instance),
                               Connecting(milvus_client_instance) /\ connect,
                               fault)
    /\ lastSearch' = NoSearch
    /\ UNCHANGED <<ingestVars, iconVars, configVars, threadVars>>

\* one call of milvus_list_collections
ListCollections ==
    /\ result # "running"
    /\ \E connect \in Returns(milvus_client_instance = "none"),
          fault \in {"none", "list", "describe"} :
        LET client == get_milvus_client(milvus_client_instance, connect)
        IN  /\ milvus_client_instance' = client
            /\ lastCall' = milvus_list_collections(
                               client, GatewayStore(store, MILVUS_DB_NAME),
                               Connecting(milvus_client_instance),
                               Connecting(milvus_client_instance) /\ connect,
                               fault)
    /\ lastSearch' = NoSearch
    /\ UNCHANGED <<ingestVars, iconVars, configVars, threadVars>>

\* one call of get_collection_info
DescribeCollection ==
    /\ result # "running"
    /\ \E c \in QueryColls,
          connect \in Returns(milvus_client_instance = "none") :
        LET client == get_milvus_client(milvus_client_instance, connect)
        IN  /\ milvus_client_instance' = client
            /\ lastCall' = get_collection_info(
                               client, c,
                               GatewayStore(store, MILVUS_DB_NAME),
                               Connecting(milvus_client_instance),
                               Connecting(milvus_client_instance) /\ connect)
    /\ lastSearch' = NoSearch
    /\ UNCHANGED <<ingestVars, iconVars, configVars, threadVars>>

\* get_milvus_client() statement by statement, as thread t runs it while
\* other threads run it too.
\* line 24: if milvus_client_instance is None
ClientCheck(t) ==
    /\ tpc[t] = "check"
    /\ tpc' = [tpc EXCEPT ![t] = IF milvus_client_instance = "none"
                                 THEN "construct" ELSE "return"]
    /\ UNCHANGED <<ingestVars, queryVars, iconVars, configVars, tret,
                   constructed, checked>>

\* lines 27-31: the constructor returns and the global is assigned, or the
\* constructor raises
ClientConstruct(t) ==
    /\ tpc[t] = "construct"
    /\ \E ok \in BOOLEAN :
        /\ constructed' = IF ok THEN constructed \cup {ClientOf(t)}
                          ELSE constructed
        /\ milvus_client_instance' = IF ok THEN ClientOf(t)
                                     ELSE milvus_client_instance
        /\ tpc' = [tpc EXCEPT ![t] = IF ok THEN "test" ELSE "reset"]
    /\ UNCHANGED <<ingestVars, lastSearch, lastCall, iconVars, configVars,
                   tret, checked>>

\* line 32: list_collections() on the global as it is now; it raises when
\* the global is None or the connection is down
ClientTest(t) ==
    /\ tpc[t] = "test"
    /\ \E ok \in Returns(milvus_client_instance # "none") :
        LET live == ok /\ milvus_client_instance # "none"
        IN  /\ checked' = IF live THEN checked \cup {milvus_client_instance}
                          ELSE checked
            /\ tpc' = [tpc EXCEPT ![t] = IF live THEN "return" ELSE "reset"]
    /\ UNCHANGED <<ingestVars, queryVars, iconVars, configVars, tret,
                   constructed>>

\* line 36: the handler sets the global to None
ClientReset(t) ==
    /\ tpc[t] = "reset"
    /\ milvus_client_instance' = "none"
    /\ tpc' = [tpc EXCEPT ![t] = "return"]
    /\ UNCHANGED <<ingestVars, lastSearch, lastCall, iconVars, configVars,
                   tret, constructed, checked>>

\* line 38: return milvus_client_instance
ClientReturn(t) ==
    /\ tpc[t] = "return"
    /\ tret' = [tret EXCEPT ![t] = milvus_client_instance]
    /\ tpc' = [tpc EXCEPT ![t] = "done"]
    /\ UNCHANGED <<ingestVars, queryVars, iconVars, configVars, constructed,
                   checked>>

\* the call of is_icon of a process that makes one
IsIcon ==
    /\ ~iconCall.called
    /\ \E img \in Images, file_bytes \in Hints :
        iconCall' = IconCall(img, file_bytes, is_icon(img, file_bytes))
    /\ UNCHANGED embedCalls
    /\ UNCHANGED <<ingestVars, queryVars, configVars, threadVars>>

\* a call of image2vector on a readable image file; the files of one
\* behaviour have the same pixels and are embedded with the same
\* filter_icons, their sizes in bytes differ
EmbedImage ==
    /\ Len(embedCalls) < MaxEmbedCalls
    /\ \E img \in EmbedImages, size \in FileSizes, filter_icons \in BOOLEAN :
        /\ embedCalls # <<>> =>
               /\ img = embedCalls[1].img
               /\ filter_icons = embedCalls[1].filter_icons
        /\ embedCalls' = Append(embedCalls,
               EmbedCall(img, size, filter_icons,
                         SkipsIcon(img, size, filter_icons)))
    /\ UNCHANGED iconCall
    /\ UNCHANGED <<ingestVars, queryVars, configVars, threadVars>>

\* one ingestion run over a long source tree
Next ==
    \/ StartRun(FALSE)
    \/ GetDims
    \/ CreateImage
    \/ CreateText
    \/ WalkFile("long")
    \/ EndWalk("long")
    \/ DrainImg
    \/ DrainTxt
    \/ Commit
    \/ Report

Spec == Init /\ [][Next]_vars

\* ingestion runs, one after the other, over a short source tree
NextRerun ==
    \/ StartRun(TRUE)
    \/ GetDims
    \/ CreateImage
    \/ CreateText
    \/ WalkFile("short")
    \/ EndWalk("short")
    \/ DrainImg
    \/ DrainTxt
    \/ Commit
    \/ Report

SpecRerun == Init /\ [][NextRerun]_vars

\* one ingestion run over a short source tree, and searches before and
\* after it
NextQuery ==
    \/ StartRun(FALSE)
    \/ GetDims
    \/ CreateImage
    \/ CreateText
    \/ WalkFile("query")
    \/ EndWalk("query")
    \/ DrainImg
    \/ DrainTxt
    \/ Commit
    \/ Report
    \/ Search({DefaultQuery}, {DefaultLimit}, {NoFields})

SpecQuery == Init /\ [][NextQuery]_vars

\* one ingestion run over a short source tree of text files, and searches,
\* listings and descriptions before and after it
NextGateway ==
    \/ StartRun(FALSE)
    \/ GetDims
    \/ CreateImage
    \/ CreateText
    \/ WalkFile("gateway")
    \/ EndWalk("gateway")
    \/ DrainImg
    \/ DrainTxt
    \/ Commit
    \/ Report
    \/ Search({DefaultQuery}, {DefaultLimit}, FieldArgs)
    \/ ListCollections
    \/ DescribeCollection

SpecGateway == Init /\ [][NextGateway]_vars

\* one ingestion run over a short source tree of text files, and text
\* searches before and after it
NextPattern ==
    \/ StartRun(FALSE)
    \/ GetDims
    \/ CreateImage
    \/ CreateText
    \/ WalkFile("gateway")
    \/ EndWalk("gateway")
    \/ DrainImg
    \/ DrainTxt
    \/ Commit
    \/ Report
    \/ TextSearch

SpecPattern == Init /\ [][NextPattern]_vars

\* one ingestion run over a source tree of image files, and searches with several queries and limits before and after it
NextRank ==
    \/ StartRun(FALSE)
    \/ GetDims
    \/ CreateImage
    \/ CreateText
    \/ WalkFile("rank")
    \/ EndWalk("rank")
    \/ DrainImg
    \/ DrainTxt
    \/ Commit
    \/ Report
    \/ Search(Queries, Limits, {NoFields})

SpecRank == Init /\ [][NextRank]_vars

\* one ingestion run over a source tree of long text files
NextSnippet ==
    \/ StartRun(FALSE)
    \/ GetDims
    \/ CreateImage
    \/ CreateText
    \/ WalkFile("snippet")
    \/ EndWalk("snippet")
    \/ DrainImg
    \/ DrainTxt
    \/ Commit
    \/ Report

SpecSnippet == Init /\ [][NextSnippet]_vars

\* one ingestion run over image files and vector searches, under any
\* configured database name
NextDatabase ==
    \/ StartRun(FALSE)
    \/ GetDims
    \/ CreateImage
    \/ CreateText
    \/ WalkFile("rank")
    \/ EndWalk("rank")
    \/ DrainImg
    \/ DrainTxt
    \/ Commit
    \/ Report
    \/ Search({DefaultQuery}, {DefaultLimit}, {NoFields})

SpecDatabase == InitDatabases /\ [][NextDatabase]_vars

\* calls of image2vector on image files of the same pixels
NextEmbed == EmbedImage

SpecEmbed == Init /\ [][NextEmbed]_vars

\* threads that call get_milvus_client() once each, interleaved
NextThreads ==
    \E t \in Threads :
        \/ ClientCheck(t)
        \/ ClientConstruct(t)
        \/ ClientTest(t)
        \/ ClientReset(t)
        \/ ClientReturn(t)

SpecThreads == Init /\ [][NextThreads]_vars

\* calls of is_icon on images and size hints around its thresholds
NextIcon == IsIcon

SpecIcon == Init /\ [][NextIcon]_vars
(* ====================================================================== *)
(* Properties                                                              *)
(* ====================================================================== *)

\* the file at path p has an image or text extension and its embedding
\* succeeds
Succeeded(fs, p) ==
    /\ IsImageSuffix(fs[p].suffix) \/ IsTextSuffix(fs[p].suffix)
    /\ fs[p].outcome = "ok"

\* the collection of the file's modality, and the other one
HomeColl(file) == IF IsImageSuffix(file.suffix) THEN IMAGE_COLL ELSE TEXT_COLL
OtherColl(file) == IF IsImageSuffix(file.suffix) THEN TEXT_COLL ELSE IMAGE_COLL

\* the vector the encoder of the file's modality gives for the file at p
OwnVector(p, file) ==
    IF IsImageSuffix(file.suffix) THEN Vec("image", dims.image, <<p>>)
    ELSE Vec("text", dims.text, Take(file.text, TextLimit))

\* the paths that occur in the rows of collection c
PathsIn(c) == {store[c].rows[k].path : k \in 1..Len(store[c].rows)}

\* the walk of the run is over and both end-of-walk flushes returned
Drained == pc \in {"commit", "report", "done"}

IsTextInsert(e) == e.op = "insert" /\ e.coll = TEXT_COLL
IsImageInsert(e) == e.op = "insert" /\ e.coll = IMAGE_COLL
TextInserts == SelectSeq(log, IsTextInsert)
ImageInserts == SelectSeq(log, IsImageInsert)

\* C1: in a run whose walk and end-of-walk flushes completed, every file
\* with an image or text extension whose embedding succeeded has exactly one
\* record, in the collection of its modality, with its path and its own
\* vector, and there is no record of any other file.
C1_EveryEmbeddedFileInsertedOnce ==
    Drained =>
        LET inImage == PathsIn(IMAGE_COLL)
            inText  == PathsIn(TEXT_COLL)
            In(c)   == IF c = IMAGE_COLL THEN inImage ELSE inText
        IN  \* no path occurs twice in a collection
            /\ Cardinality(inImage) = Len(store[IMAGE_COLL].rows)
            /\ Cardinality(inText) = Len(store[TEXT_COLL].rows)
            \* every embedded file is in its collection and only there
            /\ \A p \in 1..Len(files) :
                Succeeded(files, p) =>
                    /\ p \in In(HomeColl(files[p]))
                    /\ p \notin In(OtherColl(files[p]))
            \* every record is the record of an embedded file, with the
            \* vector of that file
            /\ \A c \in Colls : \A k \in 1..Len(store[c].rows) :
                LET r == store[c].rows[k]
                IN  /\ r.path \in 1..Len(files)
                    /\ Succeeded(files, r.path)
                    /\ c = HomeColl(files[r.path])
                    /\ r.vector = OwnVector(r.path, files[r.path])

\* a run returned that inserted a full text batch, a short final text batch
\* and an image record
C1_Witness ==
    /\ result = "returned"
    /\ Len(store[TEXT_COLL].rows) > BATCH_SIZE
    /\ Len(store[TEXT_COLL].rows) % BATCH_SIZE # 0
    /\ Len(store[IMAGE_COLL].rows) = 1
    /\ \E p \in 1..Len(files) : Succeeded(files, p)

NumTextEmbedded ==
    Cardinality({p \in 1..Len(files) :
                    IsTextSuffix(files[p].suffix) /\ files[p].outcome = "ok"})
NoImageFiles == \A p \in 1..Len(files) : ~IsImageSuffix(files[p].suffix)

\* C2: with n successfully embedded text files and no image file, a drained
\* run has made ceil(n/100) insert calls on the text collection, each of 100
\* records except a last one of n mod 100 when that is not 0, none on the
\* image collection, and the text collection holds n rows.
C2_BatchDrainCompleteness ==
    (Drained /\ NoImageFiles) =>
        LET n == NumTextEmbedded
            ins == TextInserts
        IN  /\ Len(ins) = (n + 99) \div 100
            /\ \A k \in 1..Len(ins) :
                /\ ins[k].ok
                /\ ins[k].n = IF k < Len(ins) \/ n % 100 = 0 THEN 100
                              ELSE n % 100
            /\ ImageInserts = <<>>
            /\ Len(store[TEXT_COLL].rows) = n

\* 137 text files: two inserts, 100 then 37, and a row count of 137
C2_Witness ==
    /\ Drained /\ NoImageFiles
    /\ NumTextEmbedded = 137
    /\ Len(TextInserts) = 2
    /\ TextInserts[1].n = 100 /\ TextInserts[2].n = 37
    /\ Len(store[TEXT_COLL].rows) = 137
\* C3: a run that finds both collections existing returns at once, without
\* any create_collection, embedding or insert call, and leaves the store as
\* it was.
C3_SkipReturnsWithoutCalls ==
    [][(run' = run + 1 /\ existCheck' = "both") =>
          /\ result' = "returned"
          /\ log' = <<>>
          /\ embedded' = <<>>
          /\ store' = store]_vars

\* a failure local to one file: an unreadable text file, a text file on
\* which the encoder raises, a corrupt image
LocalFailure(file) ==
    \/ IsTextSuffix(file.suffix) /\ file.outcome \in {"unreadable", "embedfail"}
    \/ IsImageSuffix(file.suffix) /\ file.outcome = "corrupt"

NumSucceeded == Cardinality({p \in 1..Len(files) : Succeeded(files, p)})

\* C4: a failure local to one file never ends the run; the file has no
\* record, and a drained run holds one row for each of the other eligible
\* files.
C4_LocalFailureNeverAborts ==
    /\ \A p \in 1..idx :
        LocalFailure(files[p]) =>
            /\ ~(result = "raised" /\ pc = "walk" /\ idx = p
                 /\ raisedBy # "insert")
            /\ p \notin PathsIn(IMAGE_COLL) \cup PathsIn(TEXT_COLL)
    /\ Drained =>
        Len(store[IMAGE_COLL].rows) + Len(store[TEXT_COLL].rows)
            = NumSucceeded

\* some insert call of the run raised
InsertFailed == \E k \in 1..Len(log) : log[k].op = "insert" /\ ~log[k].ok

\* the batch that goes to collection c
BatchOf(c) == IF c = IMAGE_COLL THEN img_batch.path ELSE txt_batch.path

\* C5: once client.insert has raised, the run has ended with that exception:
\* the failed insert is the last store call of the run (no insert, flush or
\* commit after it), and the last file processed is the one that filled the
\* batch (no further file is processed).
C5_InsertFailureAborts ==
    InsertFailed =>
        LET last == log[Len(log)]
        IN  /\ result = "raised"
            /\ raisedBy = "insert"
            /\ last.op = "insert" /\ ~last.ok
            /\ \A k \in 1..(Len(log) - 1) : log[k].ok
            /\ pc \in {"walk", "drain_img", "drain_txt"}
            /\ pc = "walk" =>
                   /\ BatchOf(last.coll) # <<>>
                   /\ BatchOf(last.coll)[Len(BatchOf(last.coll))] = idx

\* the insert of a batch that reached the batch size during the walk raised
C5_Witness ==
    /\ InsertFailed
    /\ pc = "walk"
    /\ idx = BATCH_SIZE
    /\ result = "raised"

\* C6: no collection holds a record of a file whose metadata extraction
\* failed.
C6_MetadataFailureSkipsFile ==
    \A c \in Colls : \A k \in 1..Len(store[c].rows) :
        files[store[c].rows[k].path].meta # "error"

\* both collections of the case exist
BothExist(st) == st[IMAGE_COLL].exists /\ st[TEXT_COLL].exists

\* the file reaches an encoder: image2vector for an image, text2vector for
\* a text file that could be read
ReachesEncoder(p) ==
    \/ IsImageSuffix(files[p].suffix)
    \/ IsTextSuffix(files[p].suffix) /\ files[p].outcome # "unreadable"

\* C7: a run that follows a failed run either skips (both collections exist,
\* no store call, no embedding) or embeds every eligible file from the start
\* of the walk, and what it holds in its collections and batches are the
\* records of all files embedded so far, never only those an earlier run
\* missed.
C7_RerunSkipsOrReembedsAll ==
    (run > 1 /\ prevFailed) =>
        /\ existCheck = "both" =>
            /\ BothExist(store)
            /\ log = <<>> /\ embedded = <<>> /\ idx = 0
        /\ existCheck = "missing" =>
            /\ embedded = SelectSeq([k \in 1..idx |-> k], ReachesEncoder)
            /\ pc \notin {"dims", "create_img", "create_txt"} =>
                \A p \in 1..idx :
                    Succeeded(files, p) =>
                        \/ p \in PathsIn(HomeColl(files[p]))
                        \/ \E k \in 1..Len(BatchOf(HomeColl(files[p]))) :
                               BatchOf(HomeColl(files[p]))[k] = p

\* the re-run skipped although the record of an embedded file is missing
C7_Witness ==
    /\ run = 2 /\ prevFailed /\ existCheck = "both"
    /\ \E p \in 1..Len(files) :
        Succeeded(files, p) /\ p \notin PathsIn(HomeColl(files[p]))

\* C8: whenever a search of one of the two collections sends a query
\* vector, that vector lies in the embedding space of the vectors stored in
\* the collection searched.
C8_QuerySpaceMatchesCollection ==
    [][(/\ lastSearch' # lastSearch
        /\ lastSearch'.qvec # None
        /\ lastSearch'.coll \in Colls) =>
          \A k \in 1..Len(store[lastSearch'.coll].rows) :
              store[lastSearch'.coll].rows[k].vector.space
                  = lastSearch'.qvec.space]_vars

\* C9: a search of the image collection sends a query vector of the image
\* space (the image model's text encoder), the space of the vectors stored
\* in the image collection, whatever the lengths of the two spaces.
C9_ImageSearchUsesImageSpace ==
    (lastSearch.coll = IMAGE_COLL /\ lastSearch.qvec # None) =>
        /\ lastSearch.qvec.space = "image"
        /\ \A k \in 1..Len(store[IMAGE_COLL].rows) :
            store[IMAGE_COLL].rows[k].vector.space = lastSearch.qvec.space

\* a search of the image collection returned a hit while both spaces have
\* the same vector length
C9_Witness ==
    /\ lastSearch.coll = IMAGE_COLL
    /\ lastSearch.qvec # None
    /\ dims.text = dims.image
    /\ lastSearch.ret.kind = "hits"
    /\ lastSearch.ret.items # <<>>

\* C10: the search never raises; a search that failed (no client, encoding
\* failure, store exception, unknown collection, vector length mismatch)
\* returned a list of one error record, with the store's code and message if
\* the store reported the error, and never a hit list.
C10_SearchReturnsErrorRecord ==
    /\ lastSearch.ret.kind # "raised"
    /\ lastSearch.cause # "none" =>
        /\ lastSearch.ret.kind = "error"
        /\ Len(lastSearch.ret.items) = 1
    /\ lastSearch.cause = "MilvusException" =>
        /\ lastSearch.code # ""
        /\ lastSearch.ret.items[1].code = lastSearch.code
        /\ lastSearch.ret.items[1].message = lastSearch.message
    /\ lastSearch.ret.kind = "hits" => lastSearch.cause = "none"
    /\ (lastSearch.coll # "" /\ lastSearch.coll \notin Colls) =>
        lastSearch.ret.kind = "error"
    /\ (lastSearch.coll = TEXT_COLL /\ dims.text # dims.image) =>
        lastSearch.ret.kind = "error"

\* the store rejected the query vector for its length
C10_Witness ==
    /\ lastSearch.cause = "MilvusException"
    /\ lastSearch.code = "65535"
    /\ lastSearch.ret.kind = "error"

\* C11: a gateway call for which no client could be established ends with
\* the store-unavailable result, has not used the unset client and has issued
\* no store operation.
C11_NoClientFailsFast ==
    /\ (lastCall.fn # "" /\ lastCall.client = "none") =>
        /\ lastCall.kind = "unavailable"
        /\ ~lastCall.usedNone
        /\ lastCall.ops = <<>>
    /\ lastSearch.cause = "no_client" =>
        /\ lastSearch.ret.kind = "error"
        /\ lastSearch.qvec = None

\* C12: while a client is memoized, a call of get_milvus_client() returns
\* it, leaves it memoized and attempts no connection; while none is
\* memoized, every call attempts a connection, and a failed attempt leaves
\* the module-level client unset and returns no client.
C12_ClientMemoized ==
    [][/\ milvus_client_instance # "none" =>
           /\ milvus_client_instance' = milvus_client_instance
           /\ (lastCall' # lastCall /\ lastCall'.fn # "") =>
               /\ ~lastCall'.attempted
               /\ lastCall'.client = milvus_client_instance
           /\ (lastSearch' # lastSearch /\ lastSearch'.coll # "") =>
               lastSearch'.cause # "no_client"
       /\ (/\ milvus_client_instance = "none"
           /\ lastCall' # lastCall /\ lastCall'.fn # "") =>
           /\ lastCall'.attempted
           /\ lastCall'.client = milvus_client_instance'
           /\ lastCall'.connected <=> milvus_client_instance' # "none"
       /\ (/\ milvus_client_instance = "none"
           /\ lastSearch' # lastSearch /\ lastSearch'.coll # "") =>
           (lastSearch'.cause = "no_client"
                <=> milvus_client_instance' = "none")]_vars

\* a call got the memoized client without a connection attempt
C12_Witness ==
    /\ lastCall.fn # ""
    /\ ~lastCall.attempted
    /\ lastCall.client = "client"
    /\ milvus_client_instance = "client"

\* C13: is_icon returns true exactly when the longer edge is at most 150,
\* colour counting succeeds with at most 256 distinct colours, and no size
\* hint is given or the hint is at most 10000 bytes; it returns false for
\* every image whose longer edge exceeds 150, for every size hint above
\* 10000 bytes, and whenever colour counting fails.
C13_IsIconExactly ==
    iconCall.called =>
        LET img == iconCall.img
            hint == iconCall.file_bytes
            longer == IF img.w > img.h THEN img.w ELSE img.h
            counted == ~img.broken /\ img.colours <= 65536
        IN  /\ iconCall.ret <=>
                   /\ longer <= 150
                   /\ counted /\ img.colours <= 256
                   /\ ~hint.given \/ hint.bytes <= 10000
            /\ longer > 150 => ~iconCall.ret
            /\ (hint.given /\ hint.bytes > 10000) => ~iconCall.ret
            /\ ~counted => ~iconCall.ret

\* an image of 150 by 150 with 256 colours and a size hint of 10000 bytes is
\* an icon
C13_Witness ==
    /\ iconCall.called
    /\ iconCall.img = Image(150, 150, 256, FALSE)
    /\ iconCall.file_bytes = Hint(10000)
    /\ iconCall.ret

\* every image file listed so far is a small image of few colours, and
\* there is one
AllImagesIcons ==
    /\ \A p \in 1..Len(files) :
        IsImageSuffix(files[p].suffix) => files[p].outcome = "icon"
    /\ \E p \in 1..Len(files) : IsImageSuffix(files[p].suffix)

\* C14: while every image file of the source tree is an icon, no insert
\* call is made on the image collection and the image collection has no
\* row, and a drained run has inserted the record of every text file it
\* embedded.
C14_AllIconsNoImageRows ==
    AllImagesIcons =>
        /\ ImageInserts = <<>>
        /\ store[IMAGE_COLL].rows = <<>>
        /\ img_batch = EmptyImgBatch
        /\ Drained =>
            \A p \in 1..Len(files) :
                (IsTextSuffix(files[p].suffix) /\ files[p].outcome = "ok")
                    => p \in PathsIn(TEXT_COLL)

\* a run over an icon and a text file returned with an empty image
\* collection and the record of the text file
C14_Witness ==
    /\ AllImagesIcons
    /\ result = "returned" /\ pc = "done"
    /\ store[IMAGE_COLL].exists
    /\ store[IMAGE_COLL].rows = <<>>
    /\ Len(store[TEXT_COLL].rows) = 1

\* the similarity of the query of the last search to the hit or row r
Score(r) == Cosine(lastSearch.qvec, r.vector)

\* C15: a search with limit k returns at most k hits, all of them records
\* of the collection searched, no record twice, as many as the collection
\* has if that is less than k, in descending order of cosine similarity to
\* the query vector, and no record left out is more similar than a hit; the
\* hit list is the one the store ranks for the query vector.
C15_TopKRanked ==
    (lastSearch.ret.kind = "hits" /\ lastSearch.coll \in Colls) =>
        LET hits == lastSearch.ret.items
            rows == store[lastSearch.coll].rows
            k    == lastSearch.limit
            hitPaths == {hits[i].path : i \in 1..Len(hits)}
        IN  /\ Len(hits) <= k
            /\ Len(hits) = (IF Len(rows) < k THEN Len(rows) ELSE k)
            /\ Cardinality(hitPaths) = Len(hits)
            /\ \A i \in 1..Len(hits) :
                   \E j \in 1..Len(rows) : rows[j] = hits[i]
            /\ \A i \in 1..(Len(hits) - 1) :
                   Score(hits[i]) >= Score(hits[i + 1])
            /\ \A j \in 1..Len(rows) :
                   rows[j].path \notin hitPaths =>
                       \A i \in 1..Len(hits) : Score(hits[i]) >= Score(rows[j])
            /\ hits = TopK(rows, lastSearch.qvec, k)

\* three image records of similarities 0.1, 0.9 and 0.5 to the query and a
\* limit of 2: the hits are the record of 0.9, then the record of 0.5
C15_Witness ==
    /\ lastSearch.ret.kind = "hits"
    /\ lastSearch.coll = IMAGE_COLL
    /\ lastSearch.limit = 2
    /\ Len(store[IMAGE_COLL].rows) = 3
    /\ Score(store[IMAGE_COLL].rows[1]) = 1
    /\ Score(store[IMAGE_COLL].rows[2]) = 9
    /\ Score(store[IMAGE_COLL].rows[3]) = 5
    /\ lastSearch.ret.items
           = <<store[IMAGE_COLL].rows[2], store[IMAGE_COLL].rows[3]>>

\* text holds the characters of sub as a contiguous part
Contains(text, sub) ==
    \E i \in 1..(Len(text) - Len(sub) + 1) :
        SubSeq(text, i, i + Len(sub) - 1) = sub

\* C16: the text search returns at most limit records, and the content of
\* every record it returns holds the query string as it was given,
\* character by character.
C16_PatternQueryLiteralSubstring ==
    (lastCall.fn = "milvus_text_search" /\ lastCall.kind = "ok") =>
        /\ Len(lastCall.value) <= lastCall.ops[1].limit
        /\ \A i \in 1..Len(lastCall.value) :
               Contains(lastCall.value[i].content, lastCall.arg)

\* the output fields a query operation may ask the store for: the default
\* list, or a list a caller supplied
RequestableFields == {Fields(DefaultFields)} \cup (FieldArgs \ {NoFields})

\* C17: every vector search and every text search that reaches the store
\* asks it for a list of output fields: path, modality and metadata when
\* the caller supplied none, the caller's list otherwise.
C17_RequestedOutputFields ==
    /\ lastSearch.qvec # None =>
           lastSearch.output_fields \in RequestableFields
    /\ \A k \in 1..Len(lastCall.ops) :
           lastCall.ops[k].op = "query" =>
               lastCall.ops[k].output_fields \in RequestableFields

\* the run has created collection c before its k-th store call
CreatedBefore(c, k) ==
    \E i \in 1..(k - 1) : log[i] = Call("create", c, 0, TRUE)

\* C18: the image collection has the dimension of the image space and the
\* text collection that of the text space, both with the cosine metric; a
\* run creates both before its first insert; and every record's vector has
\* the length of the dimension of its collection.
C18_CollectionDimensions ==
    /\ store[IMAGE_COLL].exists =>
        /\ store[IMAGE_COLL].dim = dims.image
        /\ store[IMAGE_COLL].metric = "COSINE"
    /\ store[TEXT_COLL].exists =>
        /\ store[TEXT_COLL].dim = dims.text
        /\ store[TEXT_COLL].metric = "COSINE"
    /\ \A k \in 1..Len(log) :
        log[k].op = "insert" =>
            CreatedBefore(IMAGE_COLL, k) /\ CreatedBefore(TEXT_COLL, k)
    /\ \A c \in Colls :
        /\ store[c].rows # <<>> => store[c].exists
        /\ \A k \in 1..Len(store[c].rows) :
               store[c].rows[k].vector.dim = store[c].dim

\* both collections hold a record while the two spaces differ in length
C18_Witness ==
    /\ dims.text # dims.image
    /\ store[IMAGE_COLL].rows # <<>>
    /\ store[TEXT_COLL].rows # <<>>
    /\ store[IMAGE_COLL].rows[1].vector.dim = dims.image
    /\ store[TEXT_COLL].rows[1].vector.dim = dims.text

\* the first 500 characters of the text t
First500(t) == IF Len(t) <= 500 THEN t ELSE SubSeq(t, 1, 500)

\* the snippet c and the vector v kept for the text file at path p are the
\* first 500 characters of the file and their encoding, and every text that
\* agrees with the file on its first 500 characters has the same vector
TruncatedAt500(p, c, v) ==
    LET full == files[p].text
    IN  /\ Len(c) <= 500
        /\ c = First500(full)
        /\ v.of = c
        /\ Take(c, TextLimit) = c
        /\ \A t \in LongTexts :
               First500(t) = First500(full) =>
                   text2vector(t, files[p], dims).vec = v

\* C19: every snippet in the text batch and every content of a text record
\* is the first 500 characters of its file, at most 500 characters long, and
\* is the text its vector encodes; texts that agree on their first 500
\* characters get the same vector.
C19_SnippetTruncation ==
    /\ \A k \in 1..Len(txt_batch.path) :
           TruncatedAt500(txt_batch.path[k], txt_batch.content[k],
                          txt_batch.vector[k])
    /\ \A k \in 1..Len(store[TEXT_COLL].rows) :
           LET r == store[TEXT_COLL].rows[k]
           IN  TruncatedAt500(r.path, r.content, r.vector)

\* the record of a file of 502 characters holds its first 500 characters
C19_Witness ==
    /\ store[TEXT_COLL].rows # <<>>
    /\ Len(files[store[TEXT_COLL].rows[1].path].text) = 502
    /\ Len(store[TEXT_COLL].rows[1].content) = 500
    /\ store[TEXT_COLL].rows[1].vector.of = store[TEXT_COLL].rows[1].content

\* C20: a model load that failed leaves nothing cached, and a run that got
\* past get_embedding_dimensions() works with completely loaded models: the
\* cached text model is never one whose load stopped half way.
C20_FailedLoadLeavesNothingCached ==
    /\ text_model \in {"none", "ready"}
    /\ image_model \in {"none", "ready"}
    /\ (result = "running" /\ pc # "dims") =>
           (text_model = "ready" /\ image_model = "ready")

\* the parallel arrays of both batches have equal length, no batch and no
\* insert call holds more than 100 entries, and between two files of a
\* running walk both batches hold fewer than 100 entries
BatchesWellFormed ==
    /\ Len(img_batch.vector) = Len(img_batch.path)
    /\ Len(txt_batch.vector) = Len(txt_batch.path)
    /\ Len(txt_batch.vector) = Len(txt_batch.content)
    /\ Len(img_batch.vector) <= 100
    /\ Len(txt_batch.vector) <= 100
    /\ \A k \in 1..Len(log) : log[k].op = "insert" => log[k].n <= 100
    /\ result = "running" =>
           (Len(img_batch.vector) < 100 /\ Len(txt_batch.vector) < 100)

\* the step issues an insert call into collection c that returned and
\* carried at least n records
InsertReturned(c, n) ==
    \E k \in (Len(log) + 1)..Len(log') :
        /\ log'[k].op = "insert" /\ log'[k].coll = c
        /\ log'[k].ok /\ log'[k].n >= n

\* within a run, a step that empties a batch issued the insert call of its
\* entries, and that call returned
ClearedOnlyAfterInsert ==
    run' = run =>
        /\ (img_batch.vector # <<>> /\ img_batch'.vector = <<>>) =>
               InsertReturned(IMAGE_COLL, Len(img_batch.vector))
        /\ (txt_batch.vector # <<>> /\ txt_batch'.vector = <<>>) =>
               InsertReturned(TEXT_COLL, Len(txt_batch.vector))
        /\ Len(img_batch'.vector) < Len(img_batch.vector) =>
               img_batch'.vector = <<>>
        /\ Len(txt_batch'.vector) < Len(txt_batch.vector) =>
               txt_batch'.vector = <<>>

\* C21: the parallel arrays of a batch always have equal length, a batch
\* never holds more than 100 entries, no insert call carries more than 100
\* records, after the threshold check that follows a file both batches hold
\* fewer than 100 entries, and a batch is cleared only by a step whose
\* insert call returned.
C21_BatchDiscipline == []BatchesWellFormed /\ [][ClearedOnlyAfterInsert]_vars

\* a batch reached 100 entries, was inserted as 100 records and cleared,
\* and the walk goes on
C21_Witness ==
    /\ result = "running" /\ pc = "walk"
    /\ \E k \in 1..Len(log) :
           log[k].op = "insert" /\ log[k].ok /\ log[k].n = 100
    /\ Len(img_batch.vector) + Len(txt_batch.vector) = 1

\* the store flush of collection c that returned is among the first n calls
FlushedWithin(c, n) ==
    \E j \in 1..n : log[j].op = "flush" /\ log[j].coll = c /\ log[j].ok

\* C22: among the store calls of a run no insert follows a store flush, the
\* row counts are read only after the store flush of both collections
\* returned, and a run that returned flushed both collections after its
\* last insert and read the row counts last.
C22_FlushAfterLastInsert ==
    /\ \A j \in 1..Len(log) : \A k \in (j + 1)..Len(log) :
           log[j].op = "flush" => log[k].op \in {"flush", "stats"}
    /\ \A k \in 1..Len(log) :
           log[k].op = "stats" =>
               (FlushedWithin(IMAGE_COLL, k - 1) /\ FlushedWithin(TEXT_COLL, k - 1))
    /\ (result = "returned" /\ existCheck = "missing") =>
           /\ Len(log) >= 3
           /\ log[Len(log)].op = "stats"
           /\ log[Len(log) - 1] = Call("flush", TEXT_COLL, 0, TRUE)
           /\ log[Len(log) - 2] = Call("flush", IMAGE_COLL, 0, TRUE)

\* a run that inserted records of both collections returned
C22_Witness ==
    /\ result = "returned" /\ existCheck = "missing"
    /\ \E j \in 1..Len(log) : log[j].op = "insert" /\ log[j].coll = IMAGE_COLL
    /\ \E j \in 1..Len(log) : log[j].op = "insert" /\ log[j].coll = TEXT_COLL
    /\ log[Len(log)].op = "stats"

\* the file at path p has one of the image extensions, one of the text
\* extensions
ImageFileAt(p) ==
    p \in 1..Len(files) /\ files[p].suffix \in {".jpg", ".jpeg", ".png", ".PNG"}
TextFileAt(p) ==
    p \in 1..Len(files) /\ files[p].suffix \in {".txt", ".md"}

\* C23: every entry of the image batch and every record of the image
\* collection belongs to an image file and has a vector of the image
\* encoder, the record has modality image and empty content; every entry of
\* the text batch and every record of the text collection belongs to a text
\* file and has a vector of the text encoder, the record has modality text
\* and the file's snippet as content.
C23_ModalitySeparation ==
    /\ \A k \in 1..Len(img_batch.vector) :
           /\ ImageFileAt(img_batch.path[k])
           /\ img_batch.vector[k].space = "image"
    /\ \A k \in 1..Len(txt_batch.vector) :
           /\ TextFileAt(txt_batch.path[k])
           /\ txt_batch.vector[k].space = "text"
    /\ \A k \in 1..Len(store[IMAGE_COLL].rows) :
           LET r == store[IMAGE_COLL].rows[k]
           IN  /\ ImageFileAt(r.path)
               /\ r.modality = "image"
               /\ r.content = <<>>
               /\ r.vector.space = "image"
               /\ r.vector.of = <<r.path>>
    /\ \A k \in 1..Len(store[TEXT_COLL].rows) :
           LET r == store[TEXT_COLL].rows[k]
           IN  /\ TextFileAt(r.path)
               /\ r.modality = "text"
               /\ r.content = First500(files[r.path].text)
               /\ r.vector.space = "text"
               /\ r.vector.of = r.content

\* both collections hold a record while the two encoders give vectors of
\* the same length, so that the store would accept either in both
C23_Witness ==
    /\ store[IMAGE_COLL].rows # <<>>
    /\ store[TEXT_COLL].rows # <<>>
    /\ store[IMAGE_COLL].dim = store[TEXT_COLL].dim

\* the extension of file f, compared without regard to case, is in neither
\* allow-list
OutsideAllowLists(f) ==
    f.suffix \notin {".jpg", ".jpeg", ".png", ".JPG", ".JPEG", ".PNG",
                     ".txt", ".md", ".TXT", ".MD"}

\* the file at path p was never given to an encoder, is in no batch, in no
\* collection and not among the logged failures
Untouched(p) ==
    /\ \A k \in 1..Len(embedded) : embedded[k] # p
    /\ \A k \in 1..Len(errlog) : errlog[k] # p
    /\ \A k \in 1..Len(img_batch.path) : img_batch.path[k] # p
    /\ \A k \in 1..Len(txt_batch.path) : txt_batch.path[k] # p
    /\ \A c \in Colls : \A k \in 1..Len(store[c].rows) :
           store[c].rows[k].path # p

\* the loop iteration of a file outside the allow-lists changes nothing but
\* the position of the walk
SkipStep ==
    (run' = run /\ idx' = idx + 1 /\ OutsideAllowLists(files'[idx'])) =>
        /\ embedded' = embedded /\ errlog' = errlog
        /\ img_batch' = img_batch /\ txt_batch' = txt_batch
        /\ store' = store /\ log' = log
        /\ result' = "running" /\ raisedBy' = ""

\* C24: processing a file whose extension is outside both allow-lists
\* (files without extension included) makes no embedding call, leaves both
\* batches, the store and the failure log unchanged and does not end the
\* run, and such a file is never in a batch or a collection.
C24_OtherExtensionsSkipped ==
    /\ [](\A p \in 1..Len(files) :
              OutsideAllowLists(files[p]) => Untouched(p))
    /\ [][SkipStep]_vars

\* a run returned in which a file without extension was walked and
\* another file was inserted
C24_Witness ==
    /\ result = "returned" /\ existCheck = "missing"
    /\ \E p \in 1..Len(files) : files[p].suffix = ""
    /\ \E c \in Colls : store[c].rows # <<>>

\* C25: whatever runs completed, skipped or aborted before, no collection
\* holds two records with the same path.
C25_NoDuplicatePaths ==
    \A c \in Colls :
        \A j \in 1..Len(store[c].rows) : \A k \in 1..Len(store[c].rows) :
            store[c].rows[j].path = store[c].rows[k].path => j = k

\* a run that followed a run which inserted records and then aborted
C25_Witness ==
    /\ run > 1 /\ prevFailed
    /\ \E c \in Colls : store[c].rows # <<>>
    /\ result \in {"returned", "raised"}

\* the run ended with an exception before its walk started
AbortedBeforeWalk ==
    result = "raised" /\ pc \in {"dims", "create_img", "create_txt"}

SearchAfterIngestion ==
    /\ result = "returned" /\ existCheck = "missing"
    /\ store[IMAGE_COLL].rows # <<>>
    /\ lastCall' = NoCall
    /\ lastSearch'.coll = IMAGE_COLL
    /\ lastSearch'.qvec # None
    /\ lastSearch'.cause # "Exception"
    /\ lastSearch'.code # "2"

\* C27: a vector search of the image collection that follows a completed
\* ingestion run finds the collection and returns records of it, whatever
\* database name is configured.
C27_FlushedRecordsVisible ==
    [][SearchAfterIngestion =>
          /\ lastSearch'.ret.kind = "hits"
          /\ lastSearch'.ret.items # <<>>
          /\ \A k \in 1..Len(lastSearch'.ret.items) :
                 \E j \in 1..Len(store[IMAGE_COLL].rows) :
                     lastSearch'.ret.items[k] = store[IMAGE_COLL].rows[j]]_vars

\* C28: a run without a logger ends as the same run with a logger does: the
\* skip returns, a file that failed is passed over, a completed run
\* returns; no run ends with an exception of a call on the logger.
C28_LoggerOptional ==
    /\ raisedBy # "logger"
    /\ (run > 0 /\ existCheck = "both") => result = "returned"
    /\ (result = "raised" /\ pc = "walk") => raisedBy = "insert"
    /\ (result = "raised" /\ pc = "report") => raisedBy = "stats"

\* C29: threads that call get_milvus_client() at the same time construct at
\* most one client, receive the same instance, and receive no client whose
\* liveness check has not succeeded.
C29_ConcurrentCallsShareOneClient ==
    /\ Cardinality(constructed) <= 1
    /\ \A t \in Threads, u \in Threads :
           (tpc[t] = "done" /\ tpc[u] = "done") => tret[t] = tret[u]
    /\ \A t \in Threads :
           (tpc[t] = "done" /\ tret[t] # "none") => tret[t] \in checked

\* C30: image files of the same pixels are all skipped as icons or all
\* embedded, whatever their sizes in bytes; with filter_icons they are
\* skipped exactly when the image is at most 150 pixels long and wide and
\* has at most 256 colours, without filter_icons they are never skipped.
C30_IconDecisionIgnoresFileSize ==
    /\ \A j \in 1..Len(embedCalls) : \A k \in 1..Len(embedCalls) :
           (/\ embedCalls[j].img = embedCalls[k].img
            /\ embedCalls[j].filter_icons = embedCalls[k].filter_icons)
               => embedCalls[j].skipped = embedCalls[k].skipped
    /\ \A k \in 1..Len(embedCalls) :
           LET c == embedCalls[k]
           IN  c.skipped <=>
                   /\ c.filter_icons
                   /\ c.img.w <= 150 /\ c.img.h <= 150
                   /\ ~c.img.broken /\ c.img.colours <= 256

\* two files of the same small image, one below and one above 10000 bytes,
\* were both skipped as icons
C30_Witness ==
    /\ Len(embedCalls) >= 2
    /\ embedCalls[1].img = embedCalls[2].img
    /\ embedCalls[1].size < 10000 /\ embedCalls[2].size > 10000
    /\ embedCalls[1].skipped /\ embedCalls[2].skipped
====
